---------------------------- MODULE Spec2Model ----------------------------
(***************************************************************************)
(* Model of the 5x7 dot matrix shield firmware (main.c): the message       *)
(* decoder DisplayMessage/SetMode, the sleep controller GoToSleep, the     *)
(* main loop and the two timer interrupt handlers.                         *)
(*                                                                         *)
(* config.h, dot_matrix.h and animations.h are not part of the sources at  *)
(* hand: the values of the PB_* masks, of the conversion tables and of the *)
(* drawing backend are taken from what the specification says about them.  *)
(***************************************************************************)
EXTENDS Integers, Sequences, FiniteSets, TLC

(***************************************************************************)
(* Bounds of the model.                                                    *)
(***************************************************************************)
\* size of the EEPROM when the decoder is run on arbitrary content
DecodeSize == 5
\* long-press delay in system ticks (config.h), scaled down
PB_LONGPRESS_DELAY == 2
\* number of entries of the animation table (animations.h), scaled down
ANIMATION_COUNT == 1
\* longest scripted run of "pressed" samples beyond the long-press threshold
ExtraPress == 2
\* longest scripted run of "not pressed" samples
MaxRelease == 2

(***************************************************************************)
(* Program constants.                                                      *)
(***************************************************************************)
PB_RELEASE   == 0
PB_PRESS     == 1
PB_LONGPRESS == 3
PB_ACK       == 128
InitialScrollSpeed == 8
InitialScrollTimer == 1
InitialPbTimer     == 0
\* address of the EEPROM array "messages"
messages == 0
\* glyphs drawn by GoToSleep and main
HappySmiley == 131
SadSmiley   == 130
\* number of columns the display interrupt cycles through
DisplayColumns == 5

Tilde == 126
Caret == 94
Direct == 255
LetterA == 65

(***************************************************************************)
(* 8 bit arithmetic.                                                       *)
(***************************************************************************)
RECURSIVE BitAnd(_, _)
BitAnd(x, y) ==
    IF x = 0 \/ y = 0 THEN 0
    ELSE (x % 2) * (y % 2) + 2 * BitAnd(x \div 2, y \div 2)

BitNot(x) == 255 - x

BitOr(x, y) == x + y - BitAnd(x, y)

\* swap without the exchange of the nibbles
swap_NoExchange(x) == x

\* the swap instruction: exchange the two nibbles of a byte
swap(x) == (x % 16) * 16 + (x \div 16)

(***************************************************************************)
(* SetMode: the fields of the mode byte.                                   *)
(***************************************************************************)
FORWARD == 0
BIDIRECTIONAL == 1

ModeInc(mode) == IF BitAnd(mode, 8) # 0 THEN 5 ELSE 1
ModeDir(mode) == IF BitAnd(mode, 128) # 0 THEN BIDIRECTIONAL ELSE FORWARD
ModeSpd(mode) == BitAnd(mode, 7)
ModeDly(mode) == BitAnd(swap(mode), 7)

\* conversion tables in flash (8 entries each)
spd_conv(i) == 7 - i
dly_conv(i) == i

\* what SetMode hands to dmSetScrolling
SetModeScrolling(mode) ==
    [inc |-> ModeInc(mode), dir |-> ModeDir(mode), dly |-> dly_conv(ModeDly(mode))]
\* what SetMode stores in scroll_speed
SetModeSpeed(mode) == spd_conv(ModeSpd(mode))

(***************************************************************************)
(* The drawing backend, seen as the sequence of units drawn since the last *)
(* dmClearDisplay.                                                         *)
(***************************************************************************)
PrintChar(c) == <<"dmPrintChar", c>>
\* dmPrintByte inside direct mode
PrintByte(b) == <<"dmPrintByte", b, "direct">>
\* dmPrintByte(0) after a unit: the narrow space
Space == <<"dmPrintByte", 0, "space">>
DisplayImage(i) == <<"dmDisplayImage", i>>

\* no scroll speed: scroll_speed changed since the last scroll step
NoSpeed == 0 - 1

VARIABLES
    eeprom,        \* EEPROM content: the byte at address a is eeprom[a + 1]
    pc,            \* position of the main program
    ret_to,        \* caller of DisplayMessage: "test", "gts" or "rel"
    gts_ret,       \* caller of GoToSleep: "boot" or "long"
    ack_site,      \* which "button |= PB_ACK" is running: 238, 244 or 252
    tmp,           \* register holding button during "button |= PB_ACK"
    ee_adr,        \* DisplayMessage: ee_adr
    ch,            \* DisplayMessage: ch
    display,       \* units drawn since the last dmClearDisplay
    msg_ptr,       \* pointer to next message in EEPROM
    scroll_speed,  \* scrolling speed
    scrolling,     \* parameters given to dmSetScrolling
    button,        \* button event
    pb_timer,      \* push button timer
    scroll_timer,  \* scroll timer
    disp_col,      \* column shown by dmDisplay
    scroll_pos,    \* parity of the number of dmScroll steps
    cursor,        \* argument of the running (or last) DisplayMessage call
    iters,         \* iterations of the while loop of that call so far
    plays,         \* released events played since the wake-up, modulo the
                   \* number of messages of the store
    slept_at,      \* msg_ptr when GoToSleep was entered
    ticks_since,   \* system ticks since the last scroll step
    speed_held,    \* scroll_speed, when it has not changed since the last
                   \* scroll step; NoSpeed otherwise
    last_gap,      \* ticks from the scroll step before the last to the last,
                   \* and speed_held when the last happened
    fed,           \* button samples fed to the system tick handler
    issued,        \* button events issued by the system tick handler
    stale          \* the scroll countdown that was running at the last
                   \* change of scroll_speed: the value it had been loaded
                   \* with, and the ticks that have counted it down since

\* state of the main program
mainVars == <<pc, ret_to, gts_ret, ack_site, tmp, ee_adr, ch, msg_ptr,
              cursor, iters, plays, slept_at>>
\* state of the system tick handler
tickVars == <<pb_timer, scroll_timer, scroll_pos, ticks_since, last_gap>>
\* bookkeeping of the scripted button test
testVars == <<fed, issued, stale>>

vars == <<eeprom, pc, ret_to, gts_ret, ack_site, tmp, ee_adr, ch, display,
          msg_ptr, scroll_speed, scrolling, button, pb_timer, scroll_timer,
          disp_col, scroll_pos, cursor, iters, plays, slept_at, ticks_since,
          speed_held, last_gap, fed, issued, stale>>

(***************************************************************************)
(* EEPROM access. Pointers wrap at the end of the address space.           *)
(***************************************************************************)
EESize == Len(eeprom)
Adr(a) == a % EESize
eeprom_read_byte(a) == eeprom[Adr(a) + 1]

(***************************************************************************)
(* DisplayMessage: one iteration of the while loop, lines 166-194.         *)
(***************************************************************************)
\* AnimationUnit with "<=" for "<" in the test of line 171
AnimationUnit_OffByOne(x) ==
    IF x # Tilde
    THEN LET idx == (x - LetterA) % 256
         IN  IF idx <= ANIMATION_COUNT THEN <<DisplayImage(idx)>> ELSE <<>>
    ELSE <<>>

\* '~' escape, lines 167-175: the units drawn for argument byte x
AnimationUnit(x) ==
    IF x # Tilde
    THEN LET idx == (x - LetterA) % 256
         IN  IF idx < ANIMATION_COUNT THEN <<DisplayImage(idx)>> ELSE <<>>
    ELSE <<>>

\* SpecialChar with the shift of 96 that the comment of lines 144-146 names
SpecialChar_Shift96(x) == IF x # Caret THEN (x + 96) % 256 ELSE x

\* '^' escape, lines 184-189: the character code drawn for argument byte x
SpecialChar(x) == IF x # Caret THEN (x + 63) % 256 ELSE x

\* DirectRun with a zero byte ending the run like the closing 0xFF
RECURSIVE DirectRun_ZeroEnds(_, _)
DirectRun_ZeroEnds(a, out) ==
    LET b == eeprom_read_byte(a)
    IN  IF b # Direct /\ b # 0
        THEN DirectRun_ZeroEnds(Adr(a + 1), Append(out, PrintByte(b)))
        ELSE [adr |-> Adr(a + 1), out |-> out]

\* direct mode, lines 177-181: a is the address of the next byte to read;
\* yields the address after the closing 0xFF and the raw columns written
RECURSIVE DirectRun(_, _)
DirectRun(a, out) ==
    LET b == eeprom_read_byte(a)
    IN  IF b # Direct
        THEN DirectRun(Adr(a + 1), Append(out, PrintByte(b)))
        ELSE [adr |-> Adr(a + 1), out |-> out]

\* lines 167-191: c is the byte in ch, a is ee_adr
DrawUnit(a, c) ==
    IF c = Tilde
    THEN [adr |-> Adr(a + 1), out |-> AnimationUnit(eeprom_read_byte(a))]
    ELSE IF c = Direct
    THEN DirectRun(a, <<>>)
    ELSE IF c = Caret
    THEN [adr |-> Adr(a + 1),
          out |-> <<PrintChar(SpecialChar(eeprom_read_byte(a)))>>]
    ELSE [adr |-> a, out |-> <<PrintChar(c)>>]

\* NarrowSpace without the test of line 193
NarrowSpace_Always(nxt) == <<Space>>

\* lines 192-193: the narrow space, printed when the next byte is not 0
NarrowSpace(nxt) == IF nxt # 0 THEN <<Space>> ELSE <<>>

\* NextMessage with a post-increment in the read of line 195
NextMessage_PostIncrement(a) ==
    IF eeprom_read_byte(a) # 0 THEN Adr(a + 1) ELSE messages

\* NextMessage without the restart of line 197
NextMessage_NoWrap(a) == a

\* lines 195-197: the pointer DisplayMessage returns
NextMessage(a) == IF eeprom_read_byte(a) # 0 THEN a ELSE messages

\* lines 161-165
DM_Enter ==
    /\ pc = "dm_enter"
    /\ scrolling' = SetModeScrolling(eeprom_read_byte(ee_adr))
    /\ scroll_speed' = SetModeSpeed(eeprom_read_byte(ee_adr))
    /\ display' = <<>>
    /\ ch' = eeprom_read_byte(ee_adr + 1)
    /\ ee_adr' = Adr(ee_adr + 2)
    /\ iters' = 0
    /\ pc' = "dm_loop"
    /\ speed_held' = IF scroll_speed' = scroll_speed THEN speed_held
                     ELSE NoSpeed
    /\ UNCHANGED <<eeprom, ret_to, gts_ret, ack_site, tmp, msg_ptr, button,
                   disp_col, cursor, plays, slept_at>>
    /\ UNCHANGED <<tickVars, testVars>>

\* lines 166-194, one iteration
DM_Loop ==
    /\ pc = "dm_loop"
    /\ ch # 0
    /\ iters < EESize
    /\ LET u == DrawUnit(ee_adr, ch)
           nxt == eeprom_read_byte(u.adr)
       IN  /\ display' = display \o u.out \o NarrowSpace(nxt)
           /\ ch' = nxt
           /\ ee_adr' = Adr(u.adr + 1)
    /\ iters' = iters + 1
    /\ UNCHANGED <<eeprom, pc, ret_to, gts_ret, ack_site, tmp, msg_ptr,
                   scroll_speed, scrolling, button, disp_col, cursor, plays,
                   slept_at, speed_held>>
    /\ UNCHANGED <<tickVars, testVars>>

\* where the main program continues after DisplayMessage returned
AfterReturn ==
    IF ret_to = "test" THEN "done"
    ELSE IF ret_to = "rel" THEN "ack_load"
    ELSE IF gts_ret = "boot" THEN "boot_smiley"
    ELSE "ack_load"

\* lines 195-197, the assignment to msg_ptr at the call (220, 243) and,
\* for the call in GoToSleep, the return from GoToSleep (221)
DM_Return ==
    /\ pc = "dm_loop"
    /\ ch = 0
    /\ msg_ptr' = NextMessage(ee_adr)
    /\ pc' = AfterReturn
    /\ ack_site' = IF ret_to = "rel" THEN 244
                   ELSE IF ret_to = "gts" /\ gts_ret = "long" THEN 252
                   ELSE ack_site
    /\ UNCHANGED <<eeprom, ret_to, gts_ret, tmp, ee_adr, ch, display,
                   scroll_speed, scrolling, button, disp_col, cursor, iters,
                   plays, slept_at, speed_held>>
    /\ UNCHANGED <<tickVars, testVars>>

(***************************************************************************)
(* The decoder on its own: DisplayMessage called once, on any EEPROM       *)
(* content over a small alphabet and at any address.                       *)
(***************************************************************************)
Alphabet == {0, LetterA, LetterA + 1, Caret, Tilde, Direct}

\* the state after construction, but for eeprom, pc, ee_adr and cursor
InitGlobals ==
    /\ ret_to = "test"
    /\ gts_ret = "boot"
    /\ ack_site = 238
    /\ tmp = 0
    /\ ch = 0
    /\ display = <<>>
    /\ msg_ptr = 0
    /\ scroll_speed = InitialScrollSpeed
    /\ scrolling = SetModeScrolling(0)
    /\ button = PB_ACK
    /\ pb_timer = InitialPbTimer
    /\ scroll_timer = InitialScrollTimer
    /\ disp_col = 0
    /\ scroll_pos = 0
    /\ iters = 0
    /\ plays = 0
    /\ slept_at = 0
    /\ ticks_since = 0
    /\ speed_held = NoSpeed
    /\ last_gap = [ticks |-> 0, speed |-> NoSpeed]
    /\ fed = <<>>
    /\ issued = <<>>
    /\ stale = [load |-> InitialScrollTimer, ticks |-> 0]

InitDecode ==
    /\ eeprom \in [1 .. DecodeSize -> Alphabet]
    /\ cursor \in 0 .. DecodeSize - 1
    /\ eeprom_read_byte(cursor) # 0
    /\ ee_adr = cursor
    /\ pc = "dm_enter"
    /\ InitGlobals

NextDecode == DM_Enter \/ DM_Loop \/ DM_Return

SpecDecode == InitDecode /\ [][NextDecode]_vars

(***************************************************************************)
(* The message format of the store, read off the EEPROM content without    *)
(* the decoder: a message is a mode byte, units and a zero terminator; a   *)
(* unit is a plain byte, '~' or '^' with one argument byte, or a direct    *)
(* mode run closed by 0xFF.                                                *)
(***************************************************************************)
NoAddress == 0 - 1

\* address of the first 0xFF at or after a, NoAddress when there is none
RECURSIVE ClosingDirect(_)
ClosingDirect(a) ==
    IF a >= EESize THEN NoAddress
    ELSE IF eeprom_read_byte(a) = Direct THEN a
    ELSE ClosingDirect(a + 1)

\* address of the terminator of the message whose units start at a,
\* NoAddress when the units are not complete before the end of the EEPROM
RECURSIVE Terminator(_)
Terminator(a) ==
    IF a >= EESize THEN NoAddress
    ELSE IF eeprom_read_byte(a) = 0 THEN a
    ELSE IF eeprom_read_byte(a) \in {Tilde, Caret}
    THEN IF a + 1 < EESize /\ eeprom_read_byte(a + 1) # 0
         THEN Terminator(a + 2)
         ELSE NoAddress
    ELSE IF eeprom_read_byte(a) = Direct
    THEN IF ClosingDirect(a + 1) = NoAddress THEN NoAddress
         ELSE Terminator(ClosingDirect(a + 1) + 1)
    ELSE Terminator(a + 1)

\* a well-formed message starts at a and ends before the end of the EEPROM
WellFormedAt(a) ==
    /\ eeprom_read_byte(a) # 0
    /\ Terminator(a + 1) # NoAddress

IsPlain(b) == b \notin {0, Tilde, Caret, Direct}

\* the bytes from address a up to the first zero byte (at most n of them)
RECURSIVE BytesToZero(_, _)
BytesToZero(a, n) ==
    IF n = 0 \/ eeprom_read_byte(a) = 0 THEN <<>>
    ELSE <<eeprom_read_byte(a)>> \o BytesToZero(a + 1, n - 1)

\* the content of the message at a, when a zero byte follows it
Content(a) == BytesToZero(a + 1, EESize - 1)

PlainMessage(a) ==
    /\ Len(Content(a)) >= 1
    /\ \A i \in 1 .. Len(Content(a)) : IsPlain(Content(a)[i])
    /\ eeprom_read_byte(a + 1 + Len(Content(a))) = 0

\* one character per byte, a narrow space between two characters
RECURSIVE Spaced(_)
Spaced(bytes) ==
    IF Len(bytes) = 0 THEN <<>>
    ELSE IF Len(bytes) = 1 THEN <<PrintChar(bytes[1])>>
    ELSE <<PrintChar(bytes[1]), Space>> \o Spaced(Tail(bytes))

\* a step of the while loop of DisplayMessage
LoopIteration == pc = "dm_loop" /\ pc' = "dm_loop" /\ iters' = iters + 1

\* the step drew exactly the units in out, and perhaps the narrow space
DrewOnly(out) ==
    \/ display' = display \o out
    \/ display' = display \o out \o <<Space>>

(***************************************************************************)
(* Stores of the running system: one, two or three messages, each         *)
(* followed by its terminator, and the zero byte that ends the store.      *)
(***************************************************************************)
\* "AB" at the fastest speed
TextMessage == <<7, LetterA, LetterA + 1>>
\* animation A, one step slower
AnimationMessage == <<6, Tilde, LetterA>>
\* three raw columns, the second of them 0
DirectMessage == <<7, Direct, LetterA, 0, Tilde, Direct>>

RECURSIVE StoreOf(_)
StoreOf(msgs) ==
    IF Len(msgs) = 0 THEN <<0>>
    ELSE Head(msgs) \o <<0>> \o StoreOf(Tail(msgs))

Stores ==
    { StoreOf(<<TextMessage>>),
      StoreOf(<<TextMessage, AnimationMessage>>),
      StoreOf(<<AnimationMessage, DirectMessage>>),
      StoreOf(<<DirectMessage, AnimationMessage, TextMessage>>) }

\* address of the i-th message of the store (i >= 1)
RECURSIVE MsgStart(_)
MsgStart(i) ==
    IF i = 1 THEN messages ELSE Terminator(MsgStart(i - 1) + 1) + 1

\* number of messages from address a to the end of the store
RECURSIVE CountMessages(_)
CountMessages(a) ==
    IF eeprom_read_byte(a) = 0 THEN 0
    ELSE 1 + CountMessages(Terminator(a + 1) + 1)

NumMessages == CountMessages(messages)

(***************************************************************************)
(* The interrupt handlers.                                                 *)
(***************************************************************************)
\* TimersRunning with a sleep mode that keeps the timer clock running
TimersRunning_SleepIdle == pc \notin {"boot", "done"}

\* The timer interrupts fire once main has enabled interrupts (line 232),
\* but not while the controller is in power-down mode (lines 215-216), in
\* which the timer clock is stopped.
TimersRunning == pc \notin {"boot", "asleep", "done"}

\* ButtonStep with the push button timer tested after the decrement
ButtonStep_EarlyLongPress(pressed, b, t) ==
    IF ~pressed
    THEN IF BitAnd(b, PB_PRESS) # 0
         THEN [button |-> BitAnd(b, BitNot(BitOr(PB_PRESS, PB_ACK))),
               pb_timer |-> t]
         ELSE [button |-> b, pb_timer |-> t]
    ELSE IF BitAnd(b, PB_PRESS) = 0
         THEN [button |-> PB_PRESS, pb_timer |-> PB_LONGPRESS_DELAY]
         ELSE IF b = PB_PRESS
              THEN IF t <= 1
                   THEN [button |-> PB_LONGPRESS, pb_timer |-> 0]
                   ELSE [button |-> b, pb_timer |-> t - 1]
              ELSE [button |-> b, pb_timer |-> t]

\* lines 290-313: the button event and the push button timer after a sample
ButtonStep(pressed, b, t) ==
    IF ~pressed
    THEN IF BitAnd(b, PB_PRESS) # 0
         THEN [button |-> BitAnd(b, BitNot(BitOr(PB_PRESS, PB_ACK))),
               pb_timer |-> t]
         ELSE [button |-> b, pb_timer |-> t]
    ELSE IF BitAnd(b, PB_PRESS) = 0
         THEN [button |-> PB_PRESS, pb_timer |-> PB_LONGPRESS_DELAY]
         ELSE IF b = PB_PRESS
              THEN IF t = 0
                   THEN [button |-> PB_LONGPRESS, pb_timer |-> t]
                   ELSE [button |-> b, pb_timer |-> t - 1]
              ELSE [button |-> b, pb_timer |-> t]

\* ScrollTimerStep with a restart value one above scroll_speed
ScrollTimerStep_ReloadPlusOne(t, speed) ==
    IF t # 0 THEN [timer |-> t - 1, scroll |-> FALSE]
    ELSE [timer |-> speed + 1, scroll |-> TRUE]

\* ScrollTimerStep with the restart when the timer is at 1
ScrollTimerStep_ReloadAtOne(t, speed) ==
    IF t > 1 THEN [timer |-> t - 1, scroll |-> FALSE]
    ELSE [timer |-> speed, scroll |-> TRUE]

\* lines 282-288: the scroll timer after a tick, and whether the tick
\* does a scrolling step
ScrollTimerStep(t, speed) ==
    IF t # 0 THEN [timer |-> t - 1, scroll |-> FALSE]
    ELSE [timer |-> speed, scroll |-> TRUE]

\* ISR(TIMER0_COMPB_vect), lines 272-315, with the button sample "pressed"
TickBody(pressed) ==
    /\ scroll_timer' = ScrollTimerStep(scroll_timer, scroll_speed).timer
    /\ IF ~ScrollTimerStep(scroll_timer, scroll_speed).scroll
       THEN /\ ticks_since' = ticks_since + 1
            /\ UNCHANGED <<scroll_pos, speed_held, last_gap>>
       ELSE /\ scroll_pos' = 1 - scroll_pos
            /\ last_gap' = [ticks |-> ticks_since + 1, speed |-> speed_held]
            /\ ticks_since' = 0
            /\ speed_held' = scroll_speed
    /\ button' = ButtonStep(pressed, button, pb_timer).button
    /\ pb_timer' = ButtonStep(pressed, button, pb_timer).pb_timer

Tick ==
    /\ TimersRunning
    /\ \E pressed \in BOOLEAN : TickBody(pressed)
    /\ UNCHANGED <<eeprom, display, scroll_speed, scrolling, disp_col>>
    /\ UNCHANGED <<mainVars, testVars>>

\* ISR(TIMER0_COMPA_vect), lines 263-269
Refresh ==
    /\ TimersRunning
    /\ disp_col' = (disp_col + 1) % DisplayColumns
    /\ UNCHANGED <<eeprom, display, scroll_speed, scrolling, button,
                   speed_held>>
    /\ UNCHANGED <<mainVars, tickVars, testVars>>

\* the pin change interrupt ends the power-down, lines 216 and 318-321
Wake ==
    /\ pc = "asleep"
    /\ pc' = "gts_wake"
    /\ UNCHANGED <<eeprom, ret_to, gts_ret, ack_site, tmp, ee_adr, ch,
                   display, msg_ptr, scroll_speed, scrolling, button,
                   disp_col, cursor, iters, plays, slept_at, speed_held>>
    /\ UNCHANGED <<tickVars, testVars>>

(***************************************************************************)
(* The main program.                                                       *)
(***************************************************************************)
\* a step of main that only moves to position "to"
Goto(to) ==
    /\ pc' = to
    /\ UNCHANGED <<eeprom, scroll_speed, scrolling, disp_col, speed_held>>
    /\ UNCHANGED <<tickVars, testVars>>

\* main, lines 230-236: up to the call of GoToSleep
Boot ==
    /\ pc = "boot"
    /\ Goto("gts_clear")
    /\ gts_ret' = "boot"
    /\ slept_at' = msg_ptr
    /\ UNCHANGED <<ret_to, ack_site, tmp, ee_adr, ch, display, msg_ptr,
                   button, cursor, iters, plays>>

\* GoToSleep, line 210
GtsClear ==
    /\ pc = "gts_clear"
    /\ Goto("gts_delay1")
    /\ display' = <<>>
    /\ UNCHANGED <<ret_to, gts_ret, ack_site, tmp, ee_adr, ch, msg_ptr,
                   button, cursor, iters, plays, slept_at>>

\* GoToSleep, lines 211-216: the delay ends, the controller powers down
GtsHalt ==
    /\ pc = "gts_delay1"
    /\ Goto("asleep")
    /\ UNCHANGED <<ret_to, gts_ret, ack_site, tmp, ee_adr, ch, display,
                   msg_ptr, button, cursor, iters, plays, slept_at>>

\* GoToSleep, lines 217-218
GtsWake ==
    /\ pc = "gts_wake"
    /\ Goto("gts_delay2")
    /\ display' = Append(display, PrintChar(HappySmiley))
    /\ UNCHANGED <<ret_to, gts_ret, ack_site, tmp, ee_adr, ch, msg_ptr,
                   button, cursor, iters, plays, slept_at>>

\* GtsPlay with the playback position kept: DisplayMessage(msg_ptr)
GtsPlay_Resume ==
    /\ pc = "gts_delay2"
    /\ Goto("dm_enter")
    /\ ee_adr' = msg_ptr
    /\ cursor' = msg_ptr
    /\ ret_to' = "gts"
    /\ plays' = 0
    /\ UNCHANGED <<gts_ret, ack_site, tmp, ch, display, msg_ptr, button,
                   iters, slept_at>>

\* GoToSleep, lines 219-220: the delay ends, DisplayMessage is called
GtsPlay ==
    /\ pc = "gts_delay2"
    /\ Goto("dm_enter")
    /\ ee_adr' = messages
    /\ cursor' = messages
    /\ ret_to' = "gts"
    /\ plays' = 0
    /\ UNCHANGED <<gts_ret, ack_site, tmp, ch, display, msg_ptr, button,
                   iters, slept_at>>

\* main, line 237
BootSmiley ==
    /\ pc = "boot_smiley"
    /\ Goto("ack_load")
    /\ display' = Append(display, PrintChar(HappySmiley))
    /\ ack_site' = 238
    /\ UNCHANGED <<ret_to, gts_ret, tmp, ee_adr, ch, msg_ptr, button, cursor,
                   iters, plays, slept_at>>

\* "button |= PB_ACK" (lines 238, 244, 252): button is read ...
AckLoad ==
    /\ pc = "ack_load"
    /\ Goto("ack_store")
    /\ tmp' = button
    /\ UNCHANGED <<ret_to, gts_ret, ack_site, ee_adr, ch, display, msg_ptr,
                   button, cursor, iters, plays, slept_at>>

\* ... and written back with the PB_ACK bit set
AckStore ==
    /\ pc = "ack_store"
    /\ Goto(IF ack_site = 244 THEN "loop_long" ELSE "loop_rel")
    /\ button' = BitOr(tmp, PB_ACK)
    /\ UNCHANGED <<ret_to, gts_ret, ack_site, tmp, ee_adr, ch, display,
                   msg_ptr, cursor, iters, plays, slept_at>>

\* main, line 242
LoopRel ==
    /\ pc = "loop_rel"
    /\ Goto(IF button = PB_RELEASE THEN "rel_call" ELSE "loop_long")
    /\ UNCHANGED <<ret_to, gts_ret, ack_site, tmp, ee_adr, ch, display,
                   msg_ptr, button, cursor, iters, plays, slept_at>>

\* main, line 243: DisplayMessage is called
RelCall ==
    /\ pc = "rel_call"
    /\ Goto("dm_enter")
    /\ ee_adr' = msg_ptr
    /\ cursor' = msg_ptr
    /\ ret_to' = "rel"
    /\ plays' = (plays + 1) % NumMessages
    /\ UNCHANGED <<gts_ret, ack_site, tmp, ch, display, msg_ptr, button,
                   iters, slept_at>>

\* main, line 247
LoopLong ==
    /\ pc = "loop_long"
    /\ Goto(IF button = PB_LONGPRESS THEN "long_clear" ELSE "loop_rel")
    /\ UNCHANGED <<ret_to, gts_ret, ack_site, tmp, ee_adr, ch, display,
                   msg_ptr, button, cursor, iters, plays, slept_at>>

\* main, lines 248-249
LongClear ==
    /\ pc = "long_clear"
    /\ Goto("long_delay")
    /\ display' = <<PrintChar(SadSmiley)>>
    /\ UNCHANGED <<ret_to, gts_ret, ack_site, tmp, ee_adr, ch, msg_ptr,
                   button, cursor, iters, plays, slept_at>>

\* main, lines 250-251: the delay ends, GoToSleep is called
LongSleep ==
    /\ pc = "long_delay"
    /\ Goto("gts_clear")
    /\ gts_ret' = "long"
    /\ slept_at' = msg_ptr
    /\ UNCHANGED <<ret_to, ack_site, tmp, ee_adr, ch, display, msg_ptr,
                   button, cursor, iters, plays>>

Init ==
    /\ eeprom \in Stores
    /\ pc = "boot"
    /\ ee_adr = 0
    /\ cursor = 0
    /\ InitGlobals

Next ==
    \/ Boot \/ GtsClear \/ GtsHalt \/ Wake \/ GtsWake \/ GtsPlay
    \/ DM_Enter \/ DM_Loop \/ DM_Return
    \/ BootSmiley \/ AckLoad \/ AckStore
    \/ LoopRel \/ RelCall \/ LoopLong \/ LongClear \/ LongSleep
    \/ Tick \/ Refresh

Spec == Init /\ [][Next]_vars

(***************************************************************************)
(* The system tick handler on its own, fed a run of "pressed" samples and  *)
(* then a run of "not pressed" samples, from an idle button state and at   *)
(* any phase of the scroll timer.                                          *)
(***************************************************************************)
\* the button states in which no press is in progress and no event waits
IdleStates ==
    { PB_ACK, BitAnd(PB_LONGPRESS, BitNot(BitOr(PB_PRESS, PB_ACK))) }

\* longest run of "pressed" samples fed
MaxPress == PB_LONGPRESS_DELAY + 2 + ExtraPress

PressedFed == Cardinality({i \in 1 .. Len(fed) : fed[i]})
ReleasedFed == Cardinality({i \in 1 .. Len(fed) : ~fed[i]})

InitButton ==
    /\ eeprom = StoreOf(<<TextMessage>>)
    /\ pc = "button_test"
    /\ ee_adr = 0
    /\ cursor = 0
    /\ ret_to = "test"
    /\ gts_ret = "boot"
    /\ ack_site = 238
    /\ tmp = 0
    /\ ch = 0
    /\ display = <<>>
    /\ msg_ptr = 0
    /\ scroll_speed = InitialScrollSpeed
    /\ scrolling = SetModeScrolling(0)
    /\ button \in IdleStates
    /\ pb_timer \in 0 .. PB_LONGPRESS_DELAY
    /\ scroll_timer \in 0 .. InitialScrollSpeed
    /\ disp_col = 0
    /\ scroll_pos = 0
    /\ iters = 0
    /\ plays = 0
    /\ slept_at = 0
    /\ ticks_since = InitialScrollSpeed - scroll_timer
    /\ speed_held = InitialScrollSpeed
    /\ last_gap = [ticks |-> 0, speed |-> NoSpeed]
    /\ fed = <<>>
    /\ issued = <<>>
    /\ stale = [load |-> InitialScrollTimer, ticks |-> 0]

\* the events are the button states the main loop acts on
IsEvent(b) == b \in {PB_RELEASE, PB_LONGPRESS}

ButtonTick ==
    /\ \E pressed \in BOOLEAN :
          /\ IF pressed
             THEN ReleasedFed = 0 /\ PressedFed < MaxPress
             ELSE ReleasedFed < MaxRelease
          /\ TickBody(pressed)
          /\ fed' = Append(fed, pressed)
    /\ issued' = IF button' # button /\ IsEvent(button')
                 THEN Append(issued, button')
                 ELSE issued
    /\ UNCHANGED <<eeprom, display, scroll_speed, scrolling, disp_col,
                   stale>>
    /\ UNCHANGED mainVars

NextButton == ButtonTick

SpecButton == InitButton /\ [][NextButton]_vars

(***************************************************************************)
(* Claims about the decoder (checked under SpecDecode).                    *)
(***************************************************************************)

\* C3: DisplayMessage returns the address of the byte right after the
\* message's zero terminator when that byte is not zero, and the address of
\* the first message when it is zero.
C3_ReturnsNextOrFirst ==
    (pc = "done" /\ WellFormedAt(cursor)) =>
        msg_ptr = IF eeprom_read_byte(Terminator(cursor + 1) + 1) # 0
                  THEN Adr(Terminator(cursor + 1) + 1)
                  ELSE messages

C3_Witness ==
    /\ pc = "done"
    /\ WellFormedAt(cursor)
    /\ cursor # messages
    /\ Terminator(cursor + 1) > cursor + 1
    /\ Terminator(cursor + 1) + 1 < EESize
    /\ eeprom_read_byte(Terminator(cursor + 1) + 1) # 0
    /\ msg_ptr = Terminator(cursor + 1) + 1

\* C7: a message of count >= 1 plain bytes (none of them 0, '~', '^' or
\* 0xFF) is drawn, after the clear, as count characters in stream order with
\* count-1 narrow spaces, one between two characters and none after the last.
C7_PlainMessageSpaced ==
    (pc = "done" /\ PlainMessage(cursor)) => display = Spaced(Content(cursor))

C7_Witness ==
    /\ pc = "done"
    /\ PlainMessage(cursor)
    /\ Len(Content(cursor)) >= 2
    /\ Len(display) = 2 * Len(Content(cursor)) - 1

\* C8: a narrow space is printed only after a unit that was drawn and that
\* another drawn unit follows: never first, never twice in a row, and never
\* last once the message is done.
C8_SpaceStrictlyBetweenUnits ==
    WellFormedAt(cursor) =>
        \A i \in 1 .. Len(display) :
            display[i] = Space =>
                /\ i > 1
                /\ display[i - 1] # Space
                /\ (pc = "done" => i < Len(display))

C10_AnimationEscape ==
    [][(LoopIteration /\ ch = Tilde) =>
        /\ DrewOnly(IF /\ eeprom_read_byte(ee_adr) # Tilde
                       /\ eeprom_read_byte(ee_adr) >= LetterA
                       /\ eeprom_read_byte(ee_adr) < LetterA + ANIMATION_COUNT
                    THEN <<DisplayImage(eeprom_read_byte(ee_adr) - LetterA)>>
                    ELSE <<>>)
        /\ ee_adr' = Adr(ee_adr + 2)
        /\ ch' = eeprom_read_byte(ee_adr + 1)]_vars

C10_Witness ==
    /\ pc = "dm_loop"
    /\ iters = 2
    /\ eeprom_read_byte(cursor + 1) = Tilde
    /\ eeprom_read_byte(cursor + 2) = LetterA
    /\ eeprom_read_byte(cursor + 3) = Tilde
    /\ eeprom_read_byte(cursor + 4) = Tilde
    /\ display[1] = DisplayImage(0)
    /\ \A i \in 2 .. Len(display) : display[i] = Space

(***************************************************************************)
(* Claims about the button state machine (checked under SpecButton).       *)
(***************************************************************************)

\* C1 as claimed: N >= 1 "pressed" samples and then M >= 1 "not pressed"
\* samples issue exactly one event: long-pressed if N > PB_LONGPRESS_DELAY,
\* released if N <= PB_LONGPRESS_DELAY.
C1_LongPressBeyondDelay ==
    (PressedFed >= 1 /\ ReleasedFed >= 1) =>
        issued = IF PressedFed > PB_LONGPRESS_DELAY
                 THEN <<PB_LONGPRESS>>
                 ELSE <<PB_RELEASE>>

\* C1, amended: N "pressed" samples and then M "not pressed" samples issue
\* the long-pressed event, once and during the hold, if and only if
\* N >= PB_LONGPRESS_DELAY + 2; they issue the released event, once and at the
\* first "not pressed" sample, if and only if 1 <= N <= PB_LONGPRESS_DELAY + 1;
\* never both and never twice.
C1_LongPressBeyondDelayPlusOne ==
    /\ issued = IF PressedFed >= PB_LONGPRESS_DELAY + 2
                THEN <<PB_LONGPRESS>>
                ELSE IF PressedFed >= 1 /\ ReleasedFed >= 1
                THEN <<PB_RELEASE>>
                ELSE <<>>
    /\ (PressedFed >= PB_LONGPRESS_DELAY + 2 /\ ReleasedFed = 0)
           => button = PB_LONGPRESS
    /\ (PressedFed \in 1 .. PB_LONGPRESS_DELAY + 1 /\ ReleasedFed >= 1)
           => button = PB_RELEASE

C1_Witness ==
    /\ PressedFed = PB_LONGPRESS_DELAY + 1
    /\ ReleasedFed >= 1
    /\ button = PB_RELEASE
    /\ issued = <<PB_RELEASE>>

(***************************************************************************)
(* Claims about the running system (checked under Spec).                   *)
(***************************************************************************)
InDisplayMessage == pc \in {"dm_enter", "dm_loop"}

\* GoToSleep has just returned to main
GoToSleepReturned ==
    \/ pc = "boot_smiley"
    \/ pc = "ack_load" /\ ack_site = 252

\* C2: the playlist is circular: the wake-up plays message 1, and the k-th
\* released event handled afterwards plays message (k mod n) + 1, n being the
\* number of messages of the store.
C2_CircularPlaylist ==
    InDisplayMessage =>
        cursor = IF ret_to = "gts" THEN MsgStart(1) ELSE MsgStart(plays + 1)

C2_Witness ==
    /\ pc = "dm_loop"
    /\ ret_to = "rel"
    /\ NumMessages = 3
    /\ plays = 0
    /\ cursor = messages
    /\ iters >= 1

\* C4 as claimed: when GoToSleep returns, msg_ptr is the address of the
\* first message.
C4_CursorAtFirstMessageAfterWake ==
    GoToSleepReturned => msg_ptr = messages

\* C4, amended: after every wake-up DisplayMessage plays the first message,
\* whatever msg_ptr was before sleeping, and when GoToSleep returns msg_ptr
\* is what that call returned: the address of the second message, or of the
\* first when the store holds one message only.
C4_FirstMessagePlayedAfterWake ==
    /\ (InDisplayMessage /\ ret_to = "gts") => cursor = messages
    /\ GoToSleepReturned =>
           msg_ptr = IF NumMessages = 1 THEN messages ELSE MsgStart(2)

C4_Witness ==
    /\ GoToSleepReturned
    /\ gts_ret = "long"
    /\ NumMessages = 3
    /\ slept_at = MsgStart(3)
    /\ msg_ptr = MsgStart(2)

\* C5: from the halt of the processor to the wake-up there is no display
\* refresh, no scroll step and no draw operation, and the display was
\* cleared before the halt.
C5_NoActivityWhileAsleep ==
    /\ [](pc = "asleep" => display = <<>>)
    /\ [][pc = "asleep" =>
            /\ display' = display
            /\ disp_col' = disp_col
            /\ scroll_pos' = scroll_pos]_vars

C5_Witness ==
    /\ pc = "asleep"
    /\ gts_ret = "long"
    /\ display = <<>>
    /\ disp_col # 0
    /\ scroll_pos # 0

\* C6: while scroll_speed keeps the value s, there are exactly s + 1 system
\* ticks from one scroll step to the next.
C6_ScrollCadence ==
    last_gap.speed # NoSpeed => last_gap.ticks = last_gap.speed + 1

C6_Witness ==
    /\ last_gap.speed = SetModeSpeed(AnimationMessage[1])
    /\ last_gap.ticks = SetModeSpeed(AnimationMessage[1]) + 1
    /\ last_gap.ticks > 1

(***************************************************************************)
(* More claims about the decoder (checked under SpecDecode).               *)
(***************************************************************************)
\* number of bytes from address a to the next 0xFF, the address wrapping
\* at the end of the EEPROM
DirectLength(a) ==
    CHOOSE k \in 0 .. EESize :
        /\ k < EESize => eeprom_read_byte(a + k) = Direct
        /\ \A j \in 0 .. k - 1 : eeprom_read_byte(a + j) # Direct

\* one raw column per byte of the n bytes from address a on
RawColumns(a, n) == [i \in 1 .. n |-> PrintByte(eeprom_read_byte(a + i - 1))]

\* C11: after a 0xFF byte every following byte up to, not including, the
\* next 0xFF is written as one raw column, in stream order and whatever its
\* value ('~', '^' and 0 included, a 0 not ending the message); the closing
\* 0xFF is not drawn and decoding goes on with the byte after it.
C11_DirectModeRaw ==
    [][(LoopIteration /\ ch = Direct) =>
        LET n == DirectLength(ee_adr)
        IN  /\ DrewOnly(RawColumns(ee_adr, n))
            /\ ch' = eeprom_read_byte(ee_adr + n + 1)
            /\ ee_adr' = Adr(ee_adr + n + 2)]_vars

C11_Witness ==
    /\ pc = "dm_loop"
    /\ iters = 1
    /\ eeprom_read_byte(cursor + 1) = Direct
    /\ eeprom_read_byte(cursor + 2) = 0
    /\ eeprom_read_byte(cursor + 3) = Tilde
    /\ eeprom_read_byte(cursor + 4) = Direct
    /\ Len(display) >= 2
    /\ display[1] = PrintByte(0)
    /\ display[2] = PrintByte(Tilde)
    /\ \A i \in 3 .. Len(display) : display[i] = Space

(***************************************************************************)
(* Claims about the hand-off of button events between the system tick      *)
(* handler and the main program (checked under Spec).                      *)
(***************************************************************************)
\* a press is in progress and no event has been issued for it yet
PressInProgress(b) == BitAnd(b, BitNot(PB_ACK)) = PB_PRESS

Acknowledged(b) == BitAnd(b, PB_ACK) # 0

\* C12: the main program acknowledges released and long-pressed events
\* only: the acknowledged bit is never set on the state of a press in
\* progress.
C12_AckNeverOnPressed ==
    ~(PressInProgress(button) /\ Acknowledged(button))

(***************************************************************************)
(* SetMode on its own: DisplayMessage called on an empty message, for      *)
(* every value of the mode byte.                                           *)
(***************************************************************************)
InitMode ==
    /\ eeprom \in {<<mode, 0>> : mode \in 0 .. 255}
    /\ cursor = messages
    /\ ee_adr = cursor
    /\ pc = "dm_enter"
    /\ InitGlobals

NextMode == DM_Enter \/ DM_Return

SpecMode == InitMode /\ [][NextMode]_vars

\* the mode byte that holds the four fields, in the layout of lines 113-117
Repack(inc, dir, dly, spd) ==
    (IF dir = BIDIRECTIONAL THEN 128 ELSE 0) + 16 * dly
        + (IF inc = 5 THEN 8 ELSE 0) + spd

\* C13: for each of the 256 mode bytes SetMode derives the increment (1 if
\* bit 3 is clear, 5 if set), the direction (bit 7), the delay index (bits
\* 6..4) and the speed index (bits 2..0) from these bits alone and hands
\* them on through the conversion tables; the delay index taken with swap is
\* (mode >> 4) & 7; packing the four fields again gives the mode byte.
C13_ModeFields ==
    LET mode == eeprom_read_byte(cursor)
    IN  /\ ModeDly(mode) = (mode \div 16) % 8
        /\ ModeSpd(mode) = mode % 8
        /\ Repack(ModeInc(mode), ModeDir(mode), ModeDly(mode), ModeSpd(mode))
               = mode
        /\ pc # "dm_enter" =>
               /\ scrolling =
                      [inc |-> IF (mode \div 8) % 2 = 1 THEN 5 ELSE 1,
                       dir |-> IF mode \div 128 = 1 THEN BIDIRECTIONAL
                               ELSE FORWARD,
                       dly |-> dly_conv((mode \div 16) % 8)]
               /\ scroll_speed = spd_conv(mode % 8)

C13_Witness ==
    /\ pc = "done"
    /\ eeprom_read_byte(cursor) = 128 + 3 * 16 + 8 + 1
    /\ scrolling = [inc |-> 5, dir |-> BIDIRECTIONAL, dly |-> dly_conv(3)]
    /\ scroll_speed = spd_conv(1)

(***************************************************************************)
(* Claims about malformed messages (checked under SpecDecode).             *)
(***************************************************************************)
\* the store starts at the cursor and is closed: after the mode byte and
\* some content bytes come a zero terminator and the zero byte that ends
\* the store; what the EEPROM holds behind the store is free
ClosedStore ==
    /\ cursor = messages
    /\ \E t \in 1 .. EESize - 2 :
          eeprom_read_byte(t) = 0 /\ eeprom_read_byte(t + 1) = 0

\* The while loop reads ch from the address before ee_adr, so the state at
\* the head of the loop is a function of ee_adr: when the loop has run once
\* for every EEPROM address and ch is still not 0, an address has come twice
\* and the loop goes on for ever.
LoopsForEver == pc = "dm_loop" /\ ch # 0 /\ iters >= EESize

\* C14: whatever the content bytes of the store are, malformed ones
\* included, DisplayMessage terminates.
C14_DisplayMessageTerminates == ClosedStore => ~LoopsForEver

(***************************************************************************)
(* More claims about the running system (checked under Spec).              *)
(***************************************************************************)
\* C15: the zero mode byte that ends the store is never played: whenever
\* DisplayMessage runs, called by GoToSleep or by the main loop, its
\* argument is the address of the non-zero mode byte of one of the messages
\* of the store (the store holding well-formed messages, at least one).
C15_SentinelNeverPlayed ==
    InDisplayMessage =>
        /\ eeprom_read_byte(cursor) # 0
        /\ \E i \in 1 .. NumMessages : cursor = MsgStart(i)

\* the call that follows the play of the last of three messages
C15_Witness ==
    /\ pc = "dm_enter"
    /\ ret_to = "rel"
    /\ NumMessages = 3
    /\ plays = 0
    /\ eeprom_read_byte(msg_ptr - 1) = 0
    /\ eeprom_read_byte(Terminator(MsgStart(3) + 1) + 1) = 0
    /\ cursor = messages

(***************************************************************************)
(* SetMode against the system tick handler: SetMode is called with any     *)
(* mode byte at any time while the system ticks go on, from any phase of   *)
(* the scroll timer.                                                       *)
(***************************************************************************)
InitScroll ==
    /\ eeprom = StoreOf(<<TextMessage>>)
    /\ pc = "scroll_test"
    /\ ee_adr = 0
    /\ cursor = 0
    /\ ret_to = "test"
    /\ gts_ret = "boot"
    /\ ack_site = 238
    /\ tmp = 0
    /\ ch = 0
    /\ display = <<>>
    /\ msg_ptr = 0
    /\ scroll_speed = InitialScrollSpeed
    /\ scrolling = SetModeScrolling(0)
    /\ button = PB_ACK
    /\ pb_timer = InitialPbTimer
    /\ scroll_timer \in 0 .. InitialScrollSpeed
    /\ disp_col = 0
    /\ scroll_pos = 0
    /\ iters = 0
    /\ plays = 0
    /\ slept_at = 0
    /\ ticks_since = InitialScrollSpeed - scroll_timer
    /\ speed_held = InitialScrollSpeed
    /\ last_gap = [ticks |-> 0, speed |-> NoSpeed]
    /\ fed = <<>>
    /\ issued = <<>>
    /\ stale = [load |-> InitialScrollSpeed, ticks |-> 0]

\* the mode bytes SetMode is called with: the slowest speed, a medium
\* speed with the increment of animations, the fastest speed
ScrollModes == {0, 4 + 8, 7}

\* scroll_speed has changed and the scroll timer has not been restarted since
SpeedPending == speed_held = NoSpeed

\* SetMode, lines 121-133, called with the mode byte "mode". When it
\* changes scroll_speed, the countdown in scroll_timer is one that was
\* loaded before: with scroll_timer + ticks_since, ticks_since ticks ago.
SetModeCall ==
    /\ \E mode \in ScrollModes :
          /\ scrolling' = SetModeScrolling(mode)
          /\ scroll_speed' = SetModeSpeed(mode)
    /\ speed_held' = IF scroll_speed' = scroll_speed THEN speed_held
                     ELSE NoSpeed
    /\ stale' = IF scroll_speed' = scroll_speed THEN stale
                ELSE [load |-> scroll_timer + ticks_since, ticks |-> 0]
    /\ UNCHANGED <<eeprom, display, button, disp_col, fed, issued>>
    /\ UNCHANGED <<mainVars, tickVars>>

\* ISR(TIMER0_COMPB_vect); a tick that decrements the scroll timer while
\* the changed scroll_speed is pending counts the old countdown down
ScrollTick ==
    /\ \E pressed \in BOOLEAN : TickBody(pressed)
    /\ stale' = IF SpeedPending /\ scroll_timer' < scroll_timer
                THEN [stale EXCEPT !.ticks = @ + 1]
                ELSE stale
    /\ UNCHANGED <<eeprom, display, scroll_speed, scrolling, disp_col, fed,
                   issued>>
    /\ UNCHANGED mainVars

NextScroll == SetModeCall \/ ScrollTick

SpecScroll == InitScroll /\ [][NextScroll]_vars

\* C16 as claimed: after scroll_speed was changed, the countdown that runs
\* on the previous value goes on for one more system tick at most.
C16_OneTickStale == stale.ticks <= 1

\* C16, amended: after scroll_speed was changed the scroll timer goes on
\* counting down from the value it was loaded with before the change, for as
\* many further ticks as it has left (at most that value, one of the earlier
\* speeds); the tick that finds it at 0 does the scroll step and loads the
\* new scroll_speed, and from then on the period is the new one.
C16_StaleUntilReload ==
    /\ stale.ticks <= stale.load
    /\ SpeedPending => stale.ticks + scroll_timer <= stale.load
    /\ [][scroll_pos' # scroll_pos =>
            /\ scroll_timer = 0
            /\ scroll_timer' = scroll_speed
            /\ ~SpeedPending']_vars

\* the speed was changed from 8 to 0 right after a restart of the timer:
\* eight ticks later the old countdown is at 0
C16_Witness ==
    /\ SpeedPending
    /\ scroll_speed = 0
    /\ stale = [load |-> InitialScrollSpeed, ticks |-> InitialScrollSpeed]
    /\ scroll_timer = 0

(***************************************************************************)
(* The main program with the system tick handler fed one hold of the       *)
(* button: a run of "pressed" samples that starts at any time after        *)
(* interrupts are enabled, then a run of "not pressed" samples.            *)
(***************************************************************************)
InitHold ==
    /\ eeprom = StoreOf(<<TextMessage>>)
    /\ pc = "boot"
    /\ ee_adr = 0
    /\ cursor = 0
    /\ InitGlobals

\* a system tick of the running controller, with the next scripted sample
HoldTick == TimersRunning /\ ButtonTick

NextHold ==
    \/ Boot \/ GtsClear \/ GtsHalt \/ Wake \/ GtsWake \/ GtsPlay
    \/ DM_Enter \/ DM_Loop \/ DM_Return
    \/ BootSmiley \/ AckLoad \/ AckStore
    \/ LoopRel \/ RelCall \/ LoopLong \/ LongClear \/ LongSleep
    \/ HoldTick

SpecHold == InitHold /\ [][NextHold]_vars

\* C17: when the button has been sampled pressed on PB_LONGPRESS_DELAY + 2
\* consecutive system ticks, the long-pressed event has been issued during
\* this hold, whatever the main program did in between.
C17_LongPressWhateverMainDoes ==
    PressedFed >= PB_LONGPRESS_DELAY + 2 =>
        \E i \in 1 .. Len(issued) : issued[i] = PB_LONGPRESS

\* main is between the test of line 242 that found the released event and
\* the end of the acknowledgement of line 244
ActingOnRelease ==
    \/ pc = "rel_call"
    \/ InDisplayMessage /\ ret_to = "rel"
    \/ pc \in {"ack_load", "ack_store"} /\ ack_site = 244

\* main is between the test of line 247 that found the long-pressed event
\* and the end of the acknowledgement of line 252
ActingOnLongPress ==
    \/ pc \in {"long_clear", "long_delay"}
    \/ /\ gts_ret = "long"
       /\ pc \in {"gts_clear", "gts_delay1", "asleep", "gts_wake",
                  "gts_delay2"}
    \/ InDisplayMessage /\ ret_to = "gts" /\ gts_ret = "long"
    \/ pc \in {"ack_load", "ack_store"} /\ ack_site = 252

\* C18: no button event is lost: a released or long-pressed event leaves
\* the button variable, by an acknowledgement or by a later transition of
\* the tick handler, only when main has acted on it (has called
\* DisplayMessage for a released event, has started going to sleep for a
\* long-pressed one).
C18_NoEventLost ==
    [][(IsEvent(button) /\ button' # button) =>
          IF button = PB_RELEASE THEN ActingOnRelease
          ELSE ActingOnLongPress]_vars

(***************************************************************************)
(* The end of a message (checked under SpecDecode).                        *)
(***************************************************************************)
\* address of the first zero byte at or after a that is not inside a
\* direct mode run, a zero byte right after '~' or '^' included; NoAddress
\* when there is none before the end of the EEPROM
RECURSIVE FirstZero(_)
FirstZero(a) ==
    IF a >= EESize THEN NoAddress
    ELSE IF eeprom_read_byte(a) = 0 THEN a
    ELSE IF eeprom_read_byte(a) = Direct
    THEN IF ClosingDirect(a + 1) = NoAddress THEN NoAddress
         ELSE FirstZero(ClosingDirect(a + 1) + 1)
    ELSE IF eeprom_read_byte(a) \in {Tilde, Caret}
    THEN IF a + 1 < EESize /\ eeprom_read_byte(a + 1) = 0 THEN a + 1
         ELSE FirstZero(a + 2)
    ELSE FirstZero(a + 1)

\* C19: DisplayMessage does not read past the terminator: decoding stops at
\* the first zero byte after the mode byte that is outside a direct mode
\* run, also when this zero byte comes right after '~' or '^', and the
\* pointer returned is the address after this zero byte or the store base.
C19_StopsAtTerminator ==
    (pc = "done" /\ FirstZero(cursor + 1) # NoAddress) =>
        /\ ee_adr = Adr(FirstZero(cursor + 1) + 1)
        /\ msg_ptr \in {Adr(FirstZero(cursor + 1) + 1), messages}

=============================================================================
